---- MODULE Spec2Model ----
(***************************************************************************)
(* Model of src/src/main.py: the neural style-transfer engine.             *)
(*   SpecBuild  - get_style_model_and_loss, one action per walked layer    *)
(*   SpecRun    - run_style_transfer with its evaluation closure           *)
(*   SpecProbe  - ContentLoss.forward / StyleLoss.forward / gram_matrix    *)
(***************************************************************************)
EXTENDS Integers, Sequences, FiniteSets, TLC

\* ---------------------------------------------------------------- bounds
MaxLayers == 3        \* longest source network walked by the builder
MaxRunLayers == 2     \* longest source network handed to run_style_transfer
MaxSteps == 2         \* largest num_steps
MaxEval == 3          \* most closure evaluations inside one optimizer.step
NumPix == 2           \* pixels of the output tensor
MaxSize == 2          \* largest spatial size of an image
MaxAct == 0           \* activations of a feature map range over -1..MaxAct
MaxPasses == 2        \* forward passes through one probe
Channels == 2         \* channels of a feature map
Width == 2            \* spatial positions of a feature map

VARIABLES
    \* get_style_model_and_loss
    cnn, content_layers, style_layers, pos, i, model, content_losses,
    style_losses, pc, ret,
    \* run_style_transfer
    caller, content_size, style_size, num_steps, input_img, input_requires_grad,
    input_grad, model_attr_requires_grad, param_requires_grad, param_grad,
    param_value, run, evals, forward_input, forwards,
    \* loss probes
    probe, x, out, backing

buildVars == <<cnn, content_layers, style_layers, pos, i, model,
               content_losses, style_losses, pc, ret>>
runVars == <<caller, content_size, style_size, num_steps, input_img,
             input_requires_grad, input_grad, model_attr_requires_grad,
             param_requires_grad, param_grad, param_value, run, evals,
             forward_input, forwards>>
probeVars == <<probe, x, out, backing>>
vars == <<buildVars, runVars, probeVars>>

None == [none |-> TRUE]

\* ------------------------------------------------------- source networks
Kinds == {"conv", "relu", "maxpool", "bn", "other"}

RECURSIVE SeqsUpTo(_, _)
SeqsUpTo(S, n) ==
    IF n = 0 THEN {<<>>}
    ELSE LET shorter == SeqsUpTo(S, n - 1)
         IN shorter \cup {Append(s, e) : s \in {t \in shorter : Len(t) = n - 1}, e \in S}

Networks(n) == SeqsUpTo(Kinds, n)

\* layer names a caller may ask to measure; conv_4 is the default content layer
LayerNames == {<<"conv", 1>>, <<"relu", 1>>, <<"conv", 2>>, <<"conv", 4>>}

content_layers_default == {<<"conv", 4>>}
style_layers_default == {<<"conv", k>> : k \in 1..5}

\* ------------------------------------------------------ nn.Sequential
IsProbe(stage) == stage.kind \in {"ContentLoss", "StyleLoss"}

Normalization == [name |-> <<"0", 0>>, kind |-> "Normalization", src |-> 0,
                  id |-> 0, target |-> <<>>]

\* the source layers a forward pass of m applies, in order
RECURSIVE Forward(_)
Forward(m) ==
    IF m = <<>> THEN <<>>
    ELSE LET rest == Forward(SubSeq(m, 1, Len(m) - 1))
             last == m[Len(m)]
         IN IF IsProbe(last) THEN rest ELSE Append(rest, last.src)

\* Module.add_module: a new name is appended, an existing name keeps its
\* position and has its module replaced
add_module(m, stage) ==
    IF \E k \in 1..Len(m) : m[k].name = stage.name
    THEN [k \in 1..Len(m) |-> IF m[k].name = stage.name THEN stage ELSE m[k]]
    ELSE Append(m, stage)

\* the isinstance chain: Conv2d, ReLU, MaxPool2d, BatchNorm2d, else raise
RecognizedAll(layer) == TRUE

Recognized(layer) == layer \in {"conv", "relu", "maxpool", "bn"}

\* i += 1 happens in the Conv2d branch only
NextIndexPool(layer, idx) == IF layer \in {"conv", "maxpool"} THEN idx + 1 ELSE idx

NextIndex(layer, idx) == IF layer = "conv" THEN idx + 1 ELSE idx

\* 'conv_{}', 'relu_{}', 'maxpool_{}', 'bn_{}' .format(i)
LayerName(layer, idx) == <<layer, idx>>

\* one iteration of the walk over cnn.children()
LayerStep(st, layer, srcIdx, cl, sl) ==
    IF ~Recognized(layer)
    THEN [st EXCEPT !.raised = TRUE]
    ELSE
      LET i1 == NextIndex(layer, st.i)
          name == LayerName(layer, i1)
          m1 == add_module(st.model, [name |-> name, kind |-> layer,
                                      src |-> srcIdx, id |-> 0, target |-> <<>>])
          nProbes == Len(st.content_losses) + Len(st.style_losses)
          content_loss == [name |-> <<"content_loss", i1>>, kind |-> "ContentLoss",
                           src |-> srcIdx, id |-> nProbes + 1, target |-> Forward(m1)]
          m2 == IF name \in cl THEN add_module(m1, content_loss) ELSE m1
          cls == IF name \in cl THEN Append(st.content_losses, content_loss)
                 ELSE st.content_losses
          style_loss == [name |-> <<"style_loss", i1>>, kind |-> "StyleLoss",
                         src |-> srcIdx, id |-> Len(cls) + Len(st.style_losses) + 1,
                         target |-> Forward(m2)]
          m3 == IF name \in sl THEN add_module(m2, style_loss) ELSE m2
          sls == IF name \in sl THEN Append(st.style_losses, style_loss)
                 ELSE st.style_losses
      IN [i |-> i1, model |-> m3, content_losses |-> cls, style_losses |-> sls,
          raised |-> FALSE]

\* for i in range(len(model) - 1, -1, -1): break at the first probe (0-based)
LastProbeIndex(m) ==
    IF \E k \in 1..Len(m) : IsProbe(m[k])
    THEN (CHOOSE k \in 1..Len(m) :
            IsProbe(m[k]) /\ \A j \in (k + 1)..Len(m) : ~IsProbe(m[j])) - 1
    ELSE 0

\* model = model[:(i + 1)]
TruncatedNoCut(m) == m

Truncated(m) == SubSeq(m, 1, LastProbeIndex(m) + 1)

\* ------------------------------------------------------------ SpecBuild
InitRunIdle ==
    /\ caller = "builder"
    /\ content_size = 1 /\ style_size = 1 /\ num_steps = 0
    /\ input_img = [p \in 1..NumPix |-> 0]
    /\ input_requires_grad = FALSE /\ input_grad = 0
    /\ model_attr_requires_grad = None
    /\ param_requires_grad = TRUE /\ param_grad = 0 /\ param_value = 0
    /\ run = 0 /\ evals = 0
    /\ forward_input = None /\ forwards = 0

InitProbeIdle ==
    /\ probe = None /\ x = <<>> /\ out = <<>> /\ backing = <<>>

InitBuild ==
    /\ cnn \in Networks(MaxLayers)
    /\ content_layers \in SUBSET LayerNames
    /\ style_layers \in SUBSET LayerNames
    /\ pos = 1
    /\ i = 0
    /\ model = <<Normalization>>
    /\ content_losses = <<>>
    /\ style_losses = <<>>
    /\ pc = "walk"
    /\ ret = None
    /\ InitRunIdle
    /\ InitProbeIdle

WalkLayer ==
    /\ pc = "walk"
    /\ pos <= Len(cnn)
    /\ LET st == LayerStep([i |-> i, model |-> model,
                            content_losses |-> content_losses,
                            style_losses |-> style_losses, raised |-> FALSE],
                           cnn[pos], pos, content_layers, style_layers)
       IN IF st.raised
          THEN /\ pc' = "raised"
               /\ UNCHANGED <<pos, i, model, content_losses, style_losses>>
          ELSE /\ pc' = "walk"
               /\ pos' = pos + 1
               /\ i' = st.i
               /\ model' = st.model
               /\ content_losses' = st.content_losses
               /\ style_losses' = st.style_losses
    /\ UNCHANGED <<cnn, content_layers, style_layers, ret, runVars, probeVars>>

TruncateAndReturn ==
    /\ pc = "walk"
    /\ pos > Len(cnn)
    /\ i' = LastProbeIndex(model)
    /\ model' = Truncated(model)
    /\ ret' = [model |-> model', style_losses |-> style_losses,
               content_losses |-> content_losses]
    /\ pc' = "returned"
    /\ UNCHANGED <<cnn, content_layers, style_layers, pos, content_losses,
                   style_losses, runVars, probeVars>>

NextBuild == WalkLayer \/ TruncateAndReturn

SpecBuild == InitBuild /\ [][NextBuild]_vars

\* ------------------------------------------------- claims on the builder
ConvCount(net, n) == Cardinality({k \in 1..n : net[k] = "conv"})

ProbeIds(m) == {m[k].id : k \in {j \in 1..Len(m) : IsProbe(m[j])}}

RecordedProbes(r) ==
    {r.content_losses[k] : k \in 1..Len(r.content_losses)}
        \cup {r.style_losses[k] : k \in 1..Len(r.style_losses)}

\* C1 (as stated): the returned pipeline always ends with a loss probe.
C1_EndsWithProbe ==
    pc = "returned" => IsProbe(ret.model[Len(ret.model)])

\* C1 (amended): when at least one probe was recorded the returned pipeline
\* ends with a probe, so nothing follows the last probe; when no probe was
\* recorded the returned pipeline is the normalization stage alone.
C1_EndsWithProbeOrBare ==
    pc = "returned" =>
        IF RecordedProbes(ret) # {}
        THEN IsProbe(ret.model[Len(ret.model)])
        ELSE ret.model = <<Normalization>>

\* a returned pipeline with a probe, from which trailing stages were cut
C1_Witness ==
    /\ pc = "returned"
    /\ RecordedProbes(ret) # {}
    /\ Len(Forward(ret.model)) < Len(cnn)

\* C4: the naming counter starts at 0 and counts exactly the convolutions
\* walked so far, and every walked stage carries the index of the most
\* recent convolution at or before it (0 when there is none).
C4_NamingCounter ==
    pc = "walk" =>
        /\ i = ConvCount(cnn, pos - 1)
        /\ \A k \in 1..Len(model) :
              (~IsProbe(model[k]) /\ model[k].src > 0) =>
                 model[k].name = <<cnn[model[k].src], ConvCount(cnn, model[k].src)>>

\* an activation named before any convolution, then a convolution and a pooling stage
C4_Witness ==
    /\ pc = "walk"
    /\ i = 1
    /\ pos = 4
    /\ cnn[1] = "relu" /\ cnn[2] = "conv" /\ cnn[3] = "maxpool"

\* C5: a network with an unrecognized stage never yields a pipeline: the walk
\* raises exactly at the first such stage and nothing is returned, whatever
\* was appended before it.
C5_UnrecognizedRaises ==
    /\ pc = "returned" => \A k \in 1..Len(cnn) : cnn[k] # "other"
    /\ pc = "walk" => \A k \in 1..(pos - 1) : cnn[k] # "other"
    /\ pc = "raised" => ret = None /\ cnn[pos] = "other"

\* the error is raised after a probe had already been appended
C5_Witness ==
    /\ pc = "raised"
    /\ Len(content_losses) + Len(style_losses) > 0
    /\ Len(model) > 2

\* C9: every probe recorded in content_losses / style_losses is a stage of
\* the returned pipeline.
C9_RecordedProbesInPipeline ==
    pc = "returned" =>
        \A p \in RecordedProbes(ret) : p.id \in ProbeIds(ret.model)

\* the non-probe stage a probe at position k directly follows (skipping probes)
RECURSIVE HostOf(_, _)
HostOf(m, k) ==
    IF k = 0 THEN 0
    ELSE IF IsProbe(m[k]) THEN HostOf(m, k - 1) ELSE m[k].src

\* C10: non-probe stages keep the order of the source network, every probe
\* directly follows the stage whose name selected it (content probe before
\* style probe), and only names that occur in the walk yield probes.
C10_OrderAndPlacement ==
    pc = "returned" =>
        /\ \A j, k \in 1..Len(ret.model) :
              (j < k /\ ~IsProbe(ret.model[j]) /\ ~IsProbe(ret.model[k]))
                  => ret.model[j].src < ret.model[k].src
        /\ \A k \in 1..Len(ret.model) :
              IsProbe(ret.model[k]) =>
                 /\ HostOf(ret.model, k) = ret.model[k].src
                 /\ (ret.model[k].kind = "ContentLoss" /\ k > 1)
                        => ~IsProbe(ret.model[k - 1])
        /\ \A p \in RecordedProbes(ret) :
              LayerName(cnn[p.src], ConvCount(cnn, p.src))
                  \in (content_layers \cup style_layers)

\* -------------------------------------------------------------- SpecRun
Pixels == -1..2          \* the displayable range [0,1] is 0..1

\* Tensor.clamp_(0, 1), elementwise
ClampLowOnly(img) == [p \in DOMAIN img |-> IF img[p] < 0 THEN 0 ELSE img[p]]

Clamp(img) ==
    [p \in DOMAIN img |-> IF img[p] < 0 THEN 0 ELSE IF img[p] > 1 THEN 1 ELSE img[p]]

InRange(img) == \A p \in DOMAIN img : img[p] >= 0 /\ img[p] <= 1

\* while run[0] <= num_steps
LoopCondStrict(r, n) == r < n

LoopCond(r, n) == r <= n

RECURSIVE WalkFrom(_, _, _, _, _)
WalkFrom(st, net, k, cl, sl) ==
    IF k > Len(net) \/ st.raised THEN st
    ELSE WalkFrom(LayerStep(st, net[k], k, cl, sl), net, k + 1, cl, sl)

\* the whole of get_style_model_and_loss, as run_style_transfer calls it
get_style_model_and_loss(net, cl, sl) ==
    LET st == WalkFrom([i |-> 0, model |-> <<Normalization>>,
                        content_losses |-> <<>>, style_losses |-> <<>>,
                        raised |-> FALSE], net, 1, cl, sl)
    IN IF st.raised THEN [raised |-> TRUE]
       ELSE [raised |-> FALSE, model |-> Truncated(st.model),
             style_losses |-> st.style_losses,
             content_losses |-> st.content_losses]

\* stages of the pipeline that own weights
HasParams(m) == \E k \in 1..Len(m) : m[k].kind \in {"conv", "bn"}

InitRun ==
    /\ caller \in {"script", "direct"}
    /\ content_size \in 1..MaxSize
    /\ style_size \in 1..MaxSize
    \* the script resizes the style image to the content size and asserts it
    /\ caller = "script" => style_size = content_size
    /\ num_steps \in 0..MaxSteps
    /\ cnn \in Networks(MaxRunLayers)
    /\ input_img \in [1..NumPix -> Pixels]
    /\ content_layers = content_layers_default
    /\ style_layers = style_layers_default
    /\ pos = 1 /\ i = 0
    /\ model = <<>> /\ content_losses = <<>> /\ style_losses = <<>>
    /\ pc = "call"
    /\ ret = None
    /\ input_requires_grad = FALSE /\ input_grad = 0
    /\ model_attr_requires_grad = None
    /\ param_requires_grad = TRUE /\ param_grad = 0 /\ param_value = 0
    /\ run = 0 /\ evals = 0
    /\ forward_input = None /\ forwards = 0
    /\ InitProbeIdle

\* lines 157-166: build the pipeline, mark the image trainable, run = [0]
BuildModel ==
    /\ pc = "call"
    /\ LET r == get_style_model_and_loss(cnn, content_layers, style_layers)
       IN IF r.raised
          THEN /\ pc' = "raised"
               /\ UNCHANGED <<model, content_losses, style_losses,
                              input_requires_grad, model_attr_requires_grad>>
          ELSE /\ pc' = "loop"
               /\ model' = r.model
               /\ content_losses' = r.content_losses
               /\ style_losses' = r.style_losses
               /\ input_requires_grad' = TRUE
               \* model.requires_grad = False sets an attribute of the module
               /\ model_attr_requires_grad' = FALSE
    /\ run' = 0
    /\ UNCHANGED <<cnn, content_layers, style_layers, pos, i, ret, caller,
                   content_size, style_size, num_steps, input_img, input_grad,
                   param_requires_grad, param_grad, param_value, evals,
                   forward_input, forwards, probeVars>>

\* line 168 taken, line 197: optimizer.step(closure) starts by evaluating
StepBegin ==
    /\ pc = "loop"
    /\ LoopCond(run, num_steps)
    /\ pc' = "closure"
    /\ evals' = 0
    /\ UNCHANGED <<cnn, content_layers, style_layers, pos, i, model,
                   content_losses, style_losses, ret, caller, content_size,
                   style_size, num_steps, input_img, input_requires_grad,
                   input_grad, model_attr_requires_grad, param_requires_grad,
                   param_grad, param_value, run, forward_input, forwards,
                   probeVars>>

\* lines 169-195: one evaluation requested by the optimizer
Closure ==
    /\ pc = "closure"
    /\ input_img' = Clamp(input_img)
    /\ forward_input' = input_img'
    /\ forwards' = forwards + 1
    /\ IF Len(style_losses) + Len(content_losses) = 0
       THEN \* loss is the int 0, which has no backward()
            /\ pc' = "raised"
            /\ input_grad' = 0
            /\ UNCHANGED <<param_grad, run, evals>>
       ELSE /\ input_grad' = IF input_requires_grad THEN 1 ELSE 0
            /\ param_grad' = IF param_requires_grad /\ HasParams(model)
                             THEN param_grad + 1 ELSE param_grad
            /\ run' = run + 1
            /\ evals' = evals + 1
            /\ pc' = "optimizer"
    /\ UNCHANGED <<cnn, content_layers, style_layers, pos, i, model,
                   content_losses, style_losses, ret, caller, content_size,
                   style_size, num_steps, input_requires_grad,
                   model_attr_requires_grad, param_requires_grad, param_value,
                   probeVars>>

\* LBFGS moves the image (its only parameter) and evaluates again
OptimizerUpdate ==
    /\ pc = "optimizer"
    /\ evals < MaxEval
    /\ \E img \in [1..NumPix -> Pixels] : input_img' = img
    /\ pc' = "closure"
    /\ UNCHANGED <<cnn, content_layers, style_layers, pos, i, model,
                   content_losses, style_losses, ret, caller, content_size,
                   style_size, num_steps, input_requires_grad, input_grad,
                   model_attr_requires_grad, param_requires_grad, param_grad,
                   param_value, run, evals, forward_input, forwards, probeVars>>

\* optimizer.step returns, with or without a last move of the image
OptimizerReturn ==
    /\ pc = "optimizer"
    /\ \E img \in [1..NumPix -> Pixels] : input_img' = img
    /\ pc' = "loop"
    /\ UNCHANGED <<cnn, content_layers, style_layers, pos, i, model,
                   content_losses, style_losses, ret, caller, content_size,
                   style_size, num_steps, input_requires_grad, input_grad,
                   model_attr_requires_grad, param_requires_grad, param_grad,
                   param_value, run, evals, forward_input, forwards, probeVars>>

\* lines 199-202: the loop condition fails, final clamp, return
LoopExit ==
    /\ pc = "loop"
    /\ ~LoopCond(run, num_steps)
    /\ input_img' = Clamp(input_img)
    /\ ret' = input_img'
    /\ pc' = "done"
    /\ UNCHANGED <<cnn, content_layers, style_layers, pos, i, model,
                   content_losses, style_losses, caller, content_size,
                   style_size, num_steps, input_requires_grad, input_grad,
                   model_attr_requires_grad, param_requires_grad, param_grad,
                   param_value, run, evals, forward_input, forwards, probeVars>>

NextRun ==
    \/ BuildModel
    \/ StepBegin
    \/ Closure
    \/ OptimizerUpdate
    \/ OptimizerReturn
    \/ LoopExit

SpecRun == InitRun /\ [][NextRun]_vars

\* ------------------------------------------- claims on run_style_transfer
\* C2 (as stated): a completed run has incremented run[0] exactly
\* num_steps + 1 times.
C2_ExactlyNumStepsPlusOne ==
    pc = "done" => run = num_steps + 1

\* C2 (amended): a completed run has incremented run[0] at least
\* num_steps + 1 times; the loop condition is tested only between
\* optimizer.step calls, so the count at exit exceeds num_steps by no more than
\* the evaluations of the last optimizer.step, which began at a count of at
\* most num_steps.
C2_AtLeastNumStepsPlusOne ==
    pc = "done" =>
        /\ run >= num_steps + 1
        /\ run - evals <= num_steps
        /\ run = forwards

\* a completed run whose last optimizer.step evaluated more than once
C2_Witness ==
    /\ pc = "done"
    /\ evals > 1
    /\ run > num_steps + 1

\* C3: every tensor fed to the pipeline by the closure lies in [0,1], and so
\* does the tensor a completed run returns.
C3_ClampedBeforeForwardAndAtExit ==
    /\ forward_input # None => InRange(forward_input)
    /\ pc = "done" => ret = input_img /\ InRange(ret)

\* a completed run in which the optimizer moved the image after the last
\* evaluation and the returned image sits on both ends of the range
C3_Witness ==
    /\ pc = "done"
    /\ forwards >= 2
    /\ ret # forward_input
    /\ \E p, q \in DOMAIN ret : ret[p] = 0 /\ ret[q] = 1

\* C6: a call with images of different spatial size never gets as far as
\* building a probe or evaluating the pipeline.
C6_MismatchRejectedBeforeBuild ==
    content_size # style_size =>
        /\ pc \in {"call", "rejected"}
        /\ Len(content_losses) + Len(style_losses) = 0
        /\ forwards = 0

\* C7: once the pipeline is built the output image is the only tensor that
\* requires gradient, and no pipeline parameter ever changes value or
\* accumulates gradient.
C7_OnlyOutputReceivesGradient ==
    /\ pc \in {"loop", "closure", "optimizer", "done"} =>
          /\ input_requires_grad
          /\ HasParams(model) => ~param_requires_grad
    /\ param_grad = 0
    /\ param_value = 0

\* ------------------------------------------------------------ SpecProbe
\* a feature map of shape [a, b, c, d] = [1, Channels, 1, Width], held as the
\* [a*b, c*d] matrix that input.view(a * b, c * d) exposes
Acts == (0 - 1)..MaxAct
FeatureMaps == [1..Channels -> [1..Width -> Acts]]

RECURSIVE SumOver(_, _)
SumOver(f, S) ==
    IF S = {} THEN 0
    ELSE LET e == CHOOSE e \in S : TRUE IN f[e] + SumOver(f, S \ {e})

\* F.mse_loss on equally shaped matrices: <<sum of squared differences,
\* number of elements>>, the exact rational sum / count
mse_loss(A, B) ==
    LET cells == {<<r, c>> : r \in DOMAIN A, c \in DOMAIN A[1]}
        sq == [rc \in cells |-> (A[rc[1]][rc[2]] - B[rc[1]][rc[2]])
                                 * (A[rc[1]][rc[2]] - B[rc[1]][rc[2]])]
    IN <<SumOver(sq, cells), Cardinality(cells)>>

\* gram_matrix: features * features^T, every entry divided by a*b*c*d; the
\* entries are kept as numerators over the common denominator Channels*Width
gram_matrix(input) ==
    [r \in 1..Channels |-> [c \in 1..Channels |->
        SumOver([k \in 1..Width |-> input[r][k] * input[c][k]], 1..Width)]]

ContentLoss(target) == [kind |-> "ContentLoss", target |-> target, loss |-> None]

StyleLoss(target_feature) ==
    [kind |-> "StyleLoss", target |-> gram_matrix(target_feature), loss |-> None]

\* forward() of either probe: the probe afterwards, the returned tensor and
\* the contents of the caller's tensor after the call
ProbeForwardScaled(p, input) ==
    [probe |-> [p EXCEPT !.loss = IF p.kind = "ContentLoss"
                                  THEN mse_loss(input, p.target)
                                  ELSE mse_loss(gram_matrix(input), p.target)],
     out |-> [r \in 1..Channels |-> [c \in 1..Width |-> input[r][c] * 2]],
     backing |-> input]

ProbeForward(p, input) ==
    [probe |-> [p EXCEPT !.loss = IF p.kind = "ContentLoss"
                                  THEN mse_loss(input, p.target)
                                  ELSE mse_loss(gram_matrix(input), p.target)],
     out |-> input,
     backing |-> input]

InitProbe ==
    /\ \E t \in FeatureMaps : probe \in {ContentLoss(t), StyleLoss(t)}
    /\ x = None /\ out = None /\ backing = None
    /\ cnn = <<>> /\ content_layers = {} /\ style_layers = {}
    /\ pos = 1 /\ i = 0 /\ model = <<>>
    /\ content_losses = <<>> /\ style_losses = <<>>
    /\ pc = "probe" /\ ret = None
    /\ InitRunIdle

ForwardPass ==
    /\ pc = "probe"
    /\ forwards < MaxPasses
    /\ forwards' = forwards + 1
    /\ \E input \in FeatureMaps :
         LET r == ProbeForward(probe, input)
         IN /\ x' = input
            /\ probe' = r.probe
            /\ out' = r.out
            /\ backing' = r.backing
    /\ UNCHANGED <<buildVars, caller, content_size, style_size, num_steps,
                   input_img, input_requires_grad, input_grad,
                   model_attr_requires_grad, param_requires_grad, param_grad,
                   param_value, run, evals, forward_input>>

NextProbe == ForwardPass

SpecProbe == InitProbe /\ [][NextProbe]_vars

\* C8: after a forward pass the returned activation and the caller's tensor
\* both equal the activation passed in; the recorded loss is 0 for a
\* ContentLoss exactly when the input equals the target and for a StyleLoss
\* exactly when the input's Gram matrix equals the target; and no forward pass
\* changes the probe's kind or target.
C8_ProbeIsPassthrough ==
    /\ [](x # None =>
            /\ out = x
            /\ backing = x
            /\ probe.loss # None
            /\ probe.loss[2] > 0
            /\ probe.kind = "ContentLoss" => (probe.loss[1] = 0 <=> x = probe.target)
            /\ probe.kind = "StyleLoss" =>
                  (probe.loss[1] = 0 <=> gram_matrix(x) = probe.target))
    /\ [][probe'.target = probe.target /\ probe'.kind = probe.kind]_vars

\* a ContentLoss that has seen its own target, and a nonzero activation
C8_Witness ==
    /\ x # None
    /\ forwards = MaxPasses
    /\ probe.kind = "ContentLoss"
    /\ x = probe.target
    /\ probe.loss[1] = 0
    /\ \E r \in 1..Channels, c \in 1..Width : x[r][c] # 0

====
